---------------------------- MODULE Spec2Model ----------------------------
(***************************************************************************)
(* A model of go-cmap: a sharded concurrent map.                           *)
(*                                                                         *)
(*   pair     (src/unnamed/part_000)  a node: key, hash, element, next     *)
(*   bucket   (src/bucket.go)         a chain: firstValue, size            *)
(*   segment  (src/unnamed/part_001)  a shard: buckets, bucketsLen,        *)
(*                                    pairTotal, lock                      *)
(*   myConcurrentMap (src/cmap.go)    the facade: segments, total          *)
(*                                                                         *)
(* The heap of pairs and the heap of buckets are functions from ids to     *)
(* records; an id that nothing refers to is collected (Go is garbage       *)
(* collected) and handed out again by the next allocation.                 *)
(*                                                                         *)
(* Threads call the facade (Put, Get, Delete, Len).  They also drive one   *)
(* stand-alone segment the way an in-package test does: the Bucket         *)
(* interface with the segment's lock passed as the lock argument, and      *)
(* segment.redistribute with the lock held.                                *)
(*                                                                         *)
(* The pair redistributor, the hash function and the DEFAULT_ / MAX_       *)
(* constants are not among the source files; they are modelled from the    *)
(* design text (sections 4.3 and 6).                                       *)
(***************************************************************************)
EXTENDS Integers, Sequences, FiniteSets

(* ------------------------------ bounds -------------------------------- *)

NumThreads == 2
NumKeys == 3
NumElems == 2
MaxNodes == 8
MaxBucketIds == 9
MaxBucketsLen == 2

(* ------------------------- program constants -------------------------- *)

\* the number of segments handed to NewConcurrentMap
Concurrency == 3
\* the chain-array length of a new segment
DEFAULT_BUCKET_NUMBER == 1
\* DEFAULT_BUCKET_LOAD_FACTOR as a fraction LoadFactorNum / LoadFactorDen
LoadFactorNum == 3
LoadFactorDen == 4
\* the shrink threshold is the growth threshold divided by this
ShrinkDivisor == 4
\* the per-chain cap that forces growth
BUCKET_MAX_SIZE == 2
\* the floor of a shrinking chain array
MinBucketNumber == 1
\* one 16-bit limb of a 64-bit hash
Limb == 65536

Nil == 0
Placeholder == -1

Threads == 1..NumThreads
Keys == 1..NumKeys
Elems == 1..NumElems
NodeIds == 1..MaxNodes
BucketIds == 1..MaxBucketIds
\* the map's segments are 0..Concurrency-1; Standalone is the segment driven
\* directly
Standalone == Concurrency
SegIds == 0..Concurrency

IllegalParameterError == "IllegalParameterError"
PairRedistributorError == "PairRedistributorError"
NoError == "nil"

(* ------------------------------- hash --------------------------------- *)

\* A 64-bit hash as four 16-bit limbs, most significant first.
hash(k) ==
    << IF k % 2 = 0 THEN 1 ELSE 0,
       IF k % 3 = 0 THEN 1 ELSE 0,
       IF k % 3 = 0 THEN 1 ELSE 0,
       k >>

\* keyHash % n for a 64-bit keyHash
HashMod(h, n) ==
    ((((((h[1] % n) * Limb + h[2]) % n) * Limb + h[3]) % n) * Limb + h[4]) % n

\* findSegment taking the index modulo the number of segments: a faulty
\* variant
findSegmentOf_modAll(concurrency, keyHash) ==
    IF concurrency = 1
    THEN 0
    ELSE LET keyHash32 == IF keyHash[1] # 0 \/ keyHash[2] # 0
                          THEN << keyHash[1], keyHash[2] >>
                          ELSE << keyHash[3], keyHash[4] >>
         IN  keyHash32[1] % concurrency

\* findSegment in a map of the given concurrency: the index of the segment
\* of a key hash (keyHash > math.MaxUint32 when one of the two upper limbs is
\* not 0; keyHash32 >> 16 is the upper limb of keyHash32)
findSegmentOf(concurrency, keyHash) ==
    IF concurrency = 1
    THEN 0
    ELSE LET keyHash32 == IF keyHash[1] # 0 \/ keyHash[2] # 0
                          THEN << keyHash[1], keyHash[2] >>
                          ELSE << keyHash[3], keyHash[4] >>
         IN  keyHash32[1] % (concurrency - 1)

\* the index of the segment of a key hash in the map
findSegment(keyHash) == findSegmentOf(Concurrency, keyHash)

(* ------------------------------ state --------------------------------- *)

VARIABLES
    nodes,      \* the heap of pairs: id -> [key, element, next]
    bkts,       \* the heap of buckets: id -> [used, firstValue, size]
    segs,       \* segment -> [buckets, bucketsLen, pairTotal]
    lock,       \* segment -> the thread that locked its mutex, or 0
    total,      \* myConcurrentMap.total
    th          \* thread -> its operation, position and locals

vars == << nodes, bkts, segs, lock, total, th >>

FreeNode == [key |-> 0, element |-> Nil, next |-> Nil]
FreeBucket == [used |-> FALSE, firstValue |-> Placeholder, size |-> 0]

Idle ==
    [pc |-> "idle", op |-> "none", key |-> 0, elem |-> Nil, seg |-> 0,
     ret |-> "idle", p |-> Nil, b |-> Nil, v |-> Nil,
     firstPair |-> Nil, target |-> Nil, newFirstPair |-> Nil,
     ok |-> FALSE, err |-> NoError, val |-> Nil,
     pairTotal |-> 0, bucketSize |-> 0,
     pairs |-> << >>, buckets |-> << >>, newBuckets |-> << >>, j |-> 0,
     rret |-> "idle", rerr |-> NoError]

(* ------------------------------ chains -------------------------------- *)

\* bucket.GetFirstPair on a bucket record
GetFirstPair(bk) == IF bk.firstValue = Placeholder THEN Nil ELSE bk.firstValue

RECURSIVE WalkFrom(_, _, _)
\* the nodes met from node n along next, at most fuel of them
WalkFrom(nd, n, fuel) ==
    IF n = Nil \/ fuel = 0 THEN << >>
    ELSE << n >> \o WalkFrom(nd, nd[n].next, fuel - 1)

\* the chain of a bucket: the nodes from its head
Chain(nd, bk) == WalkFrom(nd, GetFirstPair(bk), MaxNodes + 1)

Range(s) == { s[i] : i \in 1..Len(s) }

\* the first node with the key from node n on, or Nil
FindKey(nd, n, key) ==
    LET w == WalkFrom(nd, n, MaxNodes + 1)
        hits == { i \in 1..Len(w) : nd[w[i]].key = key }
    IN  IF hits = {} THEN Nil
        ELSE w[CHOOSE i \in hits : \A j \in hits : i <= j]

(* ------------------------- garbage collection ------------------------- *)

\* A heap address means nothing but identity.  Commit, which every action ends
\* with, drops what nothing refers to (Go collects it) and renumbers the rest
\* in the order in which it is met from the segments and then the threads, so
\* that two heaps of the same shape are one state.

\* seq without the repetitions of its members, in the order of their first
\* occurrence
Dedupe(seq) ==
    LET first == { i \in 1..Len(seq) : \A j \in 1..(i - 1) : seq[j] # seq[i] }
    IN  [k \in 1..Cardinality(first) |->
            seq[CHOOSE i \in first :
                   Cardinality({ j \in first : j < i }) = k - 1]]

RECURSIVE Flatten(_)
Flatten(ss) == IF ss = << >> THEN << >> ELSE Head(ss) \o Flatten(Tail(ss))

One(x) == IF x = Nil THEN << >> ELSE << x >>

\* the buckets that are referred to, segments first
BucketRefs(sg2, t2) ==
    Flatten([i \in 1..(Concurrency + 1) |-> sg2[i - 1].buckets])
    \o Flatten([t \in 1..NumThreads |->
                  t2[t].buckets \o t2[t].newBuckets \o One(t2[t].b)])

\* the pairs that are referred to, chains first in the order bo
NodeRefs(nd2, bk2, t2, bo) ==
    LET W(n) == WalkFrom(nd2, n, MaxNodes + 1)
    IN  Flatten([i \in 1..Len(bo) |-> Chain(nd2, bk2[bo[i]])])
        \o Flatten([t \in 1..NumThreads |->
                      W(t2[t].p) \o W(t2[t].v) \o W(t2[t].firstPair)
                      \o W(t2[t].target) \o W(t2[t].newFirstPair)
                      \o Flatten([i \in 1..Len(t2[t].pairs) |->
                                    W(t2[t].pairs[i])])])

\* the new number of each id of the sequence, 0 for an id that is not in it
Renumbering(ids, order) ==
    [x \in ids |->
        IF \E i \in 1..Len(order) : order[i] = x
        THEN CHOOSE i \in 1..Len(order) : order[i] = x
        ELSE 0]

\* The next state: the given values, collected and renumbered.
Commit(nd1, bk1, sg1, lk2, tot2, t1) ==
    \E nd2 \in { nd1 } : \E bk2 \in { bk1 } :
    \E sg2 \in { sg1 } : \E t2 \in { t1 } :
    \E brefs \in { BucketRefs(sg2, t2) } :
    \E bo \in { Dedupe(brefs) } :
    \E nrefs \in { NodeRefs(nd2, bk2, t2, bo) } :
    \E no \in { Dedupe(nrefs) } :
    \E rn \in { Renumbering(NodeIds, no) } :
    \E rb \in { Renumbering(BucketIds, bo) } :
        LET RN(n) == IF n = Nil \/ n = Placeholder THEN n ELSE rn[n]
            RB(b) == IF b = Nil THEN b ELSE rb[b]
            RNs(q) == [i \in 1..Len(q) |-> RN(q[i])]
            RBs(q) == [i \in 1..Len(q) |-> RB(q[i])]
        IN  /\ lock' = lk2
            /\ total' = tot2
            /\ segs' = [s \in SegIds |-> [sg2[s] EXCEPT !.buckets = RBs(@)]]
            /\ th' = [t \in Threads |->
                        [t2[t] EXCEPT !.p = RN(@), !.v = RN(@),
                                      !.firstPair = RN(@), !.target = RN(@),
                                      !.newFirstPair = RN(@), !.pairs = RNs(@),
                                      !.b = RB(@), !.buckets = RBs(@),
                                      !.newBuckets = RBs(@)]]
            /\ bkts' = [i \in BucketIds |->
                          IF i <= Len(bo)
                          THEN [bk2[bo[i]] EXCEPT !.firstValue = RN(@)]
                          ELSE FreeBucket]
            /\ nodes' = [i \in NodeIds |->
                           IF i <= Len(no)
                           THEN [nd2[no[i]] EXCEPT !.next = RN(@)]
                           ELSE FreeNode]

\* The next state of a step that neither makes nor drops a reference: the
\* numbering stands.
Same(lk2, tot2, t2) ==
    /\ lock' = lk2
    /\ total' = tot2
    /\ th' = t2
    /\ UNCHANGED << nodes, bkts, segs >>

FreeNodeIds == { n \in NodeIds : nodes[n].key = 0 }
FreeBucketIds == { b \in BucketIds : ~bkts[b].used }

\* the k smallest members of a set of ids, in increasing order
RECURSIVE Smallest(_, _)
Smallest(S, k) ==
    IF k = 0 \/ S = {} THEN << >>
    ELSE LET m == CHOOSE x \in S : \A y \in S : x <= y
         IN  << m >> \o Smallest(S \ { m }, k - 1)

(* --------------------------- construction ----------------------------- *)

\* newBucket: an empty chain
newBucket == [used |-> TRUE, firstValue |-> Placeholder, size |-> 0]

\* newSegment: segment s owns buckets s*DEFAULT_BUCKET_NUMBER+1 ..
newSegmentBuckets(s) ==
    [i \in 1..DEFAULT_BUCKET_NUMBER |-> s * DEFAULT_BUCKET_NUMBER + i]

newSegment(s) ==
    [buckets |-> newSegmentBuckets(s), bucketsLen |-> DEFAULT_BUCKET_NUMBER,
     pairTotal |-> 0]

\* NewConcurrentMap(Concurrency, nil), and one more segment beside it
Init ==
    /\ nodes = [n \in NodeIds |-> FreeNode]
    /\ segs = [s \in SegIds |-> newSegment(s)]
    /\ bkts = [b \in BucketIds |->
                 IF b \in UNION { Range(newSegmentBuckets(s)) : s \in SegIds }
                 THEN newBucket ELSE FreeBucket]
    /\ lock = [s \in SegIds |-> 0]
    /\ total = 0
    /\ th = [t \in Threads |-> Idle]

(* ------------------------------ helpers ------------------------------- *)

\* the bucket of a key in segment s: s.buckets[int(hash % uint64(s.bucketsLen))]
BucketOf(sg, key) == sg.buckets[HashMod(hash(key), sg.bucketsLen) + 1]

\* what a thread keeps once its operation has returned: the call and its results
Returned(r, ok, err, val) ==
    [Idle EXCEPT !.op = r.op, !.key = r.key, !.elem = r.elem, !.ok = ok,
                 !.err = err, !.val = val, !.rerr = r.rerr]

\* a bucket method returns to its caller
\* (Redistribe drops what b.Put returns)
BucketReturn(r, ok, err) ==
    [r EXCEPT !.pc = r.ret,
              !.ok = IF r.ret = "rehash" THEN r.ok ELSE ok,
              !.err = IF r.ret = "rehash" THEN r.err ELSE err,
              !.v = Nil, !.firstPair = Nil, !.target = Nil,
              !.newFirstPair = Nil]

\* uint64 counters: a negative value stands for the value plus 2^64
U64Greater(x, y) == x < 0 \/ x > y

(* ------------------------------- pair --------------------------------- *)

\* newPair without its nil check (lines 133-135 left out): a faulty variant
newPair_unchecked(key, element) ==
    [pair |-> [key |-> key, element |-> element, next |-> Nil],
     err |-> NoError]

\* newPair(key, element)
newPair(key, element) ==
    IF element = Nil
    THEN [pair |-> FreeNode, err |-> IllegalParameterError]
    ELSE [pair |-> [key |-> key, element |-> element, next |-> Nil],
          err |-> NoError]

\* pair.SetElement: a nil element is refused and nothing is stored
pair_SetElement(nd, n, element) ==
    IF element = Nil THEN nd ELSE [nd EXCEPT ![n].element = element]

\* pair.SetNext
pair_SetNext(nd, n, nextPair) == [nd EXCEPT ![n].next = nextPair]

\* pair.Copy: newPair(p.Key(), p.Element()), so the copy has no next
pair_Copy(pr) == newPair(pr.key, pr.element).pair

(* ------------------------------- mutex -------------------------------- *)

LockPcs == { "segPut66", "segPut73", "segGet82", "segDel89", "saLock" }

AfterLock(r) ==
    CASE r.pc = "segPut66" -> "segPut67"
      [] r.pc = "segPut73" -> "segPut74"
      [] r.pc = "segGet82" -> "segGet83"
      [] r.pc = "segDel89" -> "segDel90"
      [] r.pc = "saLock" ->
            IF r.op = "redistribute" THEN "saRedist" ELSE "saBucket"

\* one mutex for all the segments: a faulty variant
mutex_Lock_shared(t) ==
    /\ th[t].pc \in LockPcs
    /\ \A s \in SegIds : lock[s] = 0
    /\ Same([lock EXCEPT ![th[t].seg] = t], total,
            [th EXCEPT ![t].pc = AfterLock(th[t])])

\* a lock that does not make its caller wait: a faulty variant
mutex_Lock_noWait(t) ==
    /\ th[t].pc \in LockPcs
    /\ Same([lock EXCEPT ![th[t].seg] = t], total,
            [th EXCEPT ![t].pc = AfterLock(th[t])])

\* sync.Mutex.Lock: blocks while the mutex is locked, whoever locked it
mutex_Lock(t) ==
    /\ th[t].pc \in LockPcs
    /\ lock[th[t].seg] = 0
    /\ Same([lock EXCEPT ![th[t].seg] = t], total,
            [th EXCEPT ![t].pc = AfterLock(th[t])])

(* ------------------------------ bucket -------------------------------- *)

\* bucket.Put, lines 58-71: load the head, look for the key
bucket_Put_scan(t) ==
    LET r == th[t]
        firstPair == GetFirstPair(bkts[r.b])
        target == FindKey(nodes, firstPair, nodes[r.p].key)
    IN  /\ r.pc = "bPut58"
        /\ Commit(nodes, bkts, segs, lock, total,
                  [th EXCEPT ![t] =
                     [r EXCEPT !.firstPair = firstPair, !.target = target,
                               !.pc = IF firstPair = Nil THEN "bPut60"
                                      ELSE IF target # Nil THEN "bPut73"
                                      ELSE "bPut77"]])

\* bucket.Put, lines 60-62: the chain is empty, the pair becomes the head
bucket_Put_first(t) ==
    LET r == th[t]
    IN  /\ r.pc = "bPut60"
        /\ Commit(nodes,
                  [bkts EXCEPT ![r.b].firstValue = r.p,
                               ![r.b].size = bkts[r.b].size + 1],
                  segs, lock, total,
                  [th EXCEPT ![t] = BucketReturn(r, TRUE, NoError)])

\* bucket.Put, lines 72-75: the key is there, its element is replaced
bucket_Put_update(t) ==
    LET r == th[t]
    IN  /\ r.pc = "bPut73"
        /\ Commit(pair_SetElement(nodes, r.target, nodes[r.p].element),
                  bkts, segs, lock, total,
                  [th EXCEPT ![t] = BucketReturn(r, FALSE, NoError)])

\* bucket.Put without line 77, the pair published as it came: a faulty variant
bucket_Put_link_skip(t) ==
    LET r == th[t]
    IN  /\ r.pc = "bPut77"
        /\ Commit(nodes, bkts, segs, lock, total,
                  [th EXCEPT ![t].pc = "bPut78"])

\* bucket.Put, line 77: p.SetNext(firstPair)
bucket_Put_link(t) ==
    LET r == th[t]
    IN  /\ r.pc = "bPut77"
        /\ Commit(pair_SetNext(nodes, r.p, r.firstPair),
                  bkts, segs, lock, total,
                  [th EXCEPT ![t].pc = "bPut78"])

\* bucket.Put, lines 78-81: the pair is published as the head
bucket_Put_publish(t) ==
    LET r == th[t]
    IN  /\ r.pc = "bPut78"
        /\ Commit(nodes,
                  [bkts EXCEPT ![r.b].firstValue = r.p,
                               ![r.b].size = bkts[r.b].size + 1],
                  segs, lock, total,
                  [th EXCEPT ![t] = BucketReturn(r, TRUE, NoError)])

\* bucket.Delete with line 114 calling SetNext on the pair that was copied
\* and not on its copy: a faulty variant
CopyPrefix_relinkOriginal(nd, prevPairs, ids, tail) ==
    [n \in NodeIds |->
        IF \E i \in 1..Len(ids) : ids[i] = n
        THEN LET i == CHOOSE i \in 1..Len(ids) : ids[i] = n
             IN  pair_Copy(nd[prevPairs[i]])
        ELSE IF \E i \in 1..Len(ids) : prevPairs[i] = n
        THEN LET i == CHOOSE i \in 1..Len(ids) : prevPairs[i] = n
             IN  [nd[n] EXCEPT !.next = IF i = Len(ids) THEN tail
                                         ELSE ids[i + 1]]
        ELSE nd[n]]

\* pair.Copy of each of the pairs, on the given fresh ids, linked in order
\* and ending in tail (bucket.Delete, lines 111-116)
CopyPrefix(nd, prevPairs, ids, tail) ==
    [n \in NodeIds |->
        IF \E i \in 1..Len(ids) : ids[i] = n
        THEN LET i == CHOOSE i \in 1..Len(ids) : ids[i] = n
             IN  [pair_Copy(nd[prevPairs[i]]) EXCEPT
                     !.next = IF i = Len(ids) THEN tail ELSE ids[i + 1]]
        ELSE nd[n]]

\* bucket.Delete, lines 92-116: find the target, copy the pairs before it
bucket_Delete_build(t) ==
    LET r == th[t]
        firstPair == GetFirstPair(bkts[r.b])
        chain == WalkFrom(nodes, firstPair, MaxNodes + 1)
        hits == { i \in 1..Len(chain) : nodes[chain[i]].key = r.key }
        at == CHOOSE i \in hits : \A j \in hits : i <= j
        prevPairs == SubSeq(chain, 1, at - 1)
        breakpoint == nodes[chain[at]].next
        ids == Smallest(FreeNodeIds, Len(prevPairs))
    IN  /\ r.pc = "bDel92"
        /\ IF hits = {}
           THEN Commit(nodes, bkts, segs, lock, total,
                       [th EXCEPT ![t] = BucketReturn(r, FALSE, NoError)])
           ELSE /\ Len(ids) = Len(prevPairs)
                /\ Commit(CopyPrefix(nodes, prevPairs, ids, breakpoint),
                          bkts, segs, lock, total,
                          [th EXCEPT ![t] =
                             [r EXCEPT !.pc = "bDel117",
                                       !.target = chain[at],
                                       !.newFirstPair =
                                          IF ids = << >> THEN breakpoint
                                          ELSE ids[1]]])

\* bucket.Delete, lines 117-124: publish the new head, decrement the size
bucket_Delete_publish(t) ==
    LET r == th[t]
    IN  /\ r.pc = "bDel117"
        /\ Commit(nodes,
                  [bkts EXCEPT ![r.b].firstValue =
                                  IF r.newFirstPair # Nil THEN r.newFirstPair
                                  ELSE Placeholder,
                               ![r.b].size = bkts[r.b].size - 1],
                  segs, lock, total,
                  [th EXCEPT ![t] = BucketReturn(r, TRUE, NoError)])

\* bucket.Get, lines 128-131: load the head
bucket_Get_first(t) ==
    LET r == th[t]
        firstPair == GetFirstPair(bkts[r.b])
    IN  /\ r.pc = "bGet128"
        /\ Commit(nodes, bkts, segs, lock, total,
                  [th EXCEPT ![t] =
                     IF firstPair = Nil
                     THEN [r EXCEPT !.pc = r.ret, !.target = Nil]
                     ELSE [r EXCEPT !.pc = "bGet133", !.v = firstPair]])

\* bucket.Get, lines 132-138: one turn of the loop
bucket_Get_step(t) ==
    LET r == th[t]
    IN  /\ r.pc = "bGet133"
        /\ Commit(nodes, bkts, segs, lock, total,
                  [th EXCEPT ![t] =
                     IF nodes[r.v].key = r.key
                     THEN [r EXCEPT !.pc = r.ret, !.target = r.v, !.v = Nil]
                     ELSE IF nodes[r.v].next = Nil
                     THEN [r EXCEPT !.pc = r.ret, !.target = Nil, !.v = Nil]
                     ELSE [r EXCEPT !.v = nodes[r.v].next]])

\* bucket.Clear without line 146, the size left as it is: a faulty variant
bucket_Clear_keepSize(t) ==
    LET r == th[t]
    IN  /\ r.pc = "bClr146"
        /\ Commit(nodes,
                  [bkts EXCEPT ![r.b].firstValue = Placeholder],
                  segs, lock, total,
                  [th EXCEPT ![t] = BucketReturn(r, FALSE, NoError)])

\* bucket.Clear, lines 146-147
bucket_Clear(t) ==
    LET r == th[t]
    IN  /\ r.pc = "bClr146"
        /\ Commit(nodes,
                  [bkts EXCEPT ![r.b].firstValue = Placeholder,
                               ![r.b].size = 0],
                  segs, lock, total,
                  [th EXCEPT ![t] = BucketReturn(r, FALSE, NoError)])

(* --------------------------- redistributor ---------------------------- *)

\* UpdateThreshold(pairTotal, bucketsLen): the growth threshold is
\* bucketsLen * loadFactor and the shrink threshold a quarter of it; both are
\* kept multiplied by LoadFactorDen * ShrinkDivisor
UpdateThreshold(pairTotal, bucketsLen) ==
    [upper |-> bucketsLen * LoadFactorNum * ShrinkDivisor,
     lower |-> bucketsLen * LoadFactorNum]

\* CheckBucketStatus(pairTotal, bucketSize)
CheckBucketStatus(threshold, pairTotal, bucketSize) ==
    LET scaled == pairTotal * LoadFactorDen * ShrinkDivisor
    IN  IF U64Greater(scaled, threshold.upper)
           \/ U64Greater(bucketSize, BUCKET_MAX_SIZE)
        THEN "Overloaded"
        ELSE IF scaled < threshold.lower THEN "Underloaded"
        ELSE "Normal"

\* Redistribe: the length of the chain array it returns
NewBucketNumber(bucketStatus, currentNumber) ==
    CASE bucketStatus = "Overloaded" ->
            IF 2 * currentNumber <= MaxBucketsLen THEN 2 * currentNumber
            ELSE currentNumber
      [] bucketStatus = "Underloaded" ->
            IF currentNumber \div 2 >= MinBucketNumber THEN currentNumber \div 2
            ELSE currentNumber
      [] OTHER -> currentNumber

RECURSIVE AllPairs(_, _, _)
\* Redistribe: every pair reachable from the chains, chain by chain
AllPairs(nd, bk, buckets) ==
    IF buckets = << >> THEN << >>
    ELSE Chain(nd, bk[Head(buckets)]) \o AllPairs(nd, bk, Tail(buckets))

(* ------------------------------ segment ------------------------------- *)

\* segment.redistribute storing the new array before it is filled, instead of
\* at lines 57-62: a faulty variant
redistribute_begin_swapFirst(t, r, sg, pairTotal, bucketSize, fault) ==
    LET s == sg[r.seg]
        threshold == UpdateThreshold(pairTotal, s.bucketsLen)
        bucketStatus == CheckBucketStatus(threshold, pairTotal, bucketSize)
        newNumber == NewBucketNumber(bucketStatus, Len(s.buckets))
        ids == Smallest(FreeBucketIds, newNumber)
    IN  IF fault
        THEN Commit(nodes, bkts, sg, lock, total,
                    [th EXCEPT ![t] =
                       [r EXCEPT !.pc = r.rret, !.p = Nil, !.b = Nil,
                                 !.rerr = PairRedistributorError]])
        ELSE IF newNumber = Len(s.buckets)
        THEN Commit(nodes, bkts, sg, lock, total,
                    [th EXCEPT ![t] = [r EXCEPT !.pc = r.rret, !.p = Nil,
                                                !.b = Nil, !.rerr = NoError]])
        ELSE /\ Len(ids) = newNumber
             /\ Commit(nodes,
                       [b \in BucketIds |->
                          IF b \in Range(ids) THEN newBucket ELSE bkts[b]],
                       [sg EXCEPT ![r.seg].buckets = ids,
                                  ![r.seg].bucketsLen = newNumber],
                       lock, total,
                       [th EXCEPT ![t] =
                          [r EXCEPT !.pc = "rehash", !.rerr = NoError,
                                    !.p = Nil, !.b = Nil,
                                    !.buckets = s.buckets,
                                    !.pairs = AllPairs(nodes, bkts, s.buckets),
                                    !.newBuckets = ids, !.j = 1]])

\* segment.redistribute, lines 44-56, up to the rehash loop of Redistribe.
\* r and sg are the caller's thread record and segments; a fault is a panic in
\* the redistributor, which the deferred recover turns into the error.
redistribute_begin(t, r, sg, pairTotal, bucketSize, fault) ==
    LET s == sg[r.seg]
        threshold == UpdateThreshold(pairTotal, s.bucketsLen)
        bucketStatus == CheckBucketStatus(threshold, pairTotal, bucketSize)
        newNumber == NewBucketNumber(bucketStatus, Len(s.buckets))
        ids == Smallest(FreeBucketIds, newNumber)
    IN  IF fault
        THEN Commit(nodes, bkts, sg, lock, total,
                    [th EXCEPT ![t] =
                       [r EXCEPT !.pc = r.rret, !.p = Nil, !.b = Nil,
                                 !.rerr = PairRedistributorError]])
        ELSE IF newNumber = Len(s.buckets)
        THEN Commit(nodes, bkts, sg, lock, total,
                    [th EXCEPT ![t] = [r EXCEPT !.pc = r.rret, !.p = Nil,
                                                !.b = Nil, !.rerr = NoError]])
        ELSE /\ Len(ids) = newNumber
             /\ Commit(nodes,
                       [b \in BucketIds |->
                          IF b \in Range(ids) THEN newBucket ELSE bkts[b]],
                       sg, lock, total,
                       [th EXCEPT ![t] =
                          [r EXCEPT !.pc = "rehash", !.rerr = NoError,
                                    !.p = Nil, !.b = Nil,
                                    !.buckets = s.buckets,
                                    !.pairs = AllPairs(nodes, bkts, s.buckets),
                                    !.newBuckets = ids, !.j = 1]])

\* Redistribe: one turn of the rehash loop, b.Put(p, nil) into the new array
Redistribe_step(t, fault) ==
    LET r == th[t]
        p == r.pairs[r.j]
    IN  /\ r.pc = "rehash"
        /\ Commit(nodes, bkts, segs, lock, total,
                  [th EXCEPT ![t] =
                     IF fault
                     THEN [r EXCEPT !.pc = r.rret,
                                    !.rerr = PairRedistributorError,
                                    !.p = Nil, !.b = Nil, !.j = 0,
                                    !.pairs = << >>, !.buckets = << >>,
                                    !.newBuckets = << >>]
                     ELSE IF r.j > Len(r.pairs)
                     THEN [r EXCEPT !.pc = "redist57", !.p = Nil, !.b = Nil]
                     ELSE [r EXCEPT !.pc = "bPut58", !.ret = "rehash",
                                    !.p = p, !.j = r.j + 1,
                                    !.b = r.newBuckets[
                                             HashMod(hash(nodes[p].key),
                                                     Len(r.newBuckets)) + 1]]])

\* segment.redistribute, lines 57-62: the new array replaces the old one
redistribute_end(t) ==
    LET r == th[t]
    IN  /\ r.pc = "redist57"
        /\ Commit(nodes, bkts,
                  [segs EXCEPT ![r.seg].buckets = r.newBuckets,
                               ![r.seg].bucketsLen = Len(r.newBuckets)],
                  lock, total,
                  [th EXCEPT ![t] =
                     [r EXCEPT !.pc = r.rret, !.j = 0, !.pairs = << >>,
                               !.buckets = << >>, !.newBuckets = << >>]])

\* segment.Put, lines 67-68: pick the bucket, call its Put
segment_Put_call(t) ==
    LET r == th[t]
    IN  /\ r.pc = "segPut67"
        /\ Commit(nodes, bkts, segs, lock, total,
                  [th EXCEPT ![t] =
                     [r EXCEPT !.pc = "bPut58", !.ret = "segPut69",
                               !.b = BucketOf(segs[r.seg], nodes[r.p].key)]])

\* segment.Put, lines 69-72: count the pair and redistribute; the error of
\* redistribute is dropped.  Line 73 follows.
segment_Put_after(t, fault) ==
    LET r == th[t]
        newTotal == segs[r.seg].pairTotal + 1
    IN  /\ r.pc = "segPut69"
        /\ IF r.ok
           THEN redistribute_begin(t, [r EXCEPT !.rret = "segPut73"],
                                   [segs EXCEPT ![r.seg].pairTotal = newTotal],
                                   newTotal, bkts[r.b].size, fault)
           ELSE /\ ~fault
                /\ Commit(nodes, bkts, segs, lock, total,
                          [th EXCEPT ![t] = [r EXCEPT !.pc = "segPut73",
                                                      !.p = Nil, !.b = Nil]])

\* segment.GetWithHash without line 84, the lock kept through the lookup: a
\* faulty variant
segment_GetWithHash_keepLock(t) ==
    LET r == th[t]
    IN  /\ r.pc = "segGet83"
        /\ Commit(nodes, bkts, segs, lock, total,
                  [th EXCEPT ![t] =
                     [r EXCEPT !.pc = "bGet128",
                               !.b = BucketOf(segs[r.seg], r.key)]])

\* segment.GetWithHash, lines 83-84: pick the bucket, unlock
segment_GetWithHash(t) ==
    LET r == th[t]
    IN  /\ r.pc = "segGet83"
        /\ Commit(nodes, bkts, segs, [lock EXCEPT ![r.seg] = 0], total,
                  [th EXCEPT ![t] =
                     [r EXCEPT !.pc = "bGet128",
                               !.b = BucketOf(segs[r.seg], r.key)]])

\* segment.Delete, lines 90-91: pick the bucket, call its Delete
segment_Delete_call(t) ==
    LET r == th[t]
    IN  /\ r.pc = "segDel90"
        /\ Commit(nodes, bkts, segs, lock, total,
                  [th EXCEPT ![t] =
                     [r EXCEPT !.pc = "bDel92", !.ret = "segDel92",
                               !.b = BucketOf(segs[r.seg], r.key)]])

\* segment.Delete, lines 92-95: on success count down and redistribute
segment_Delete_after(t, fault) ==
    LET r == th[t]
        newTotal == segs[r.seg].pairTotal - 1
    IN  /\ r.pc = "segDel92"
        /\ IF r.ok
           THEN redistribute_begin(t, [r EXCEPT !.rret = "segDel96"],
                                   [segs EXCEPT ![r.seg].pairTotal = newTotal],
                                   newTotal, bkts[r.b].size, fault)
           ELSE /\ ~fault
                /\ Commit(nodes, bkts, segs, lock, total,
                          [th EXCEPT ![t] = [r EXCEPT !.pc = "segDel96",
                                                      !.p = Nil, !.b = Nil]])

\* segment.Delete, lines 96-98: unlock and return
segment_Delete_unlock(t) ==
    LET r == th[t]
    IN  /\ r.pc = "segDel96"
        /\ Commit(nodes, bkts, segs, [lock EXCEPT ![r.seg] = 0], total,
                  [th EXCEPT ![t] = [r EXCEPT !.pc = "segDel97", !.b = Nil]])

(* --------------------------- myConcurrentMap -------------------------- *)

\* myConcurrentMap.Put, lines 41-46: make the pair, find its segment and call
\* segment.Put, whose first statement locks
cmap_Put(t, key, element) ==
    LET made == newPair(key, element)
        ids == Smallest(FreeNodeIds, 1)
        r == [Idle EXCEPT !.op = "Put", !.key = key, !.elem = element,
                          !.seg = findSegment(hash(key))]
    IN  /\ th[t].pc = "idle"
        /\ IF made.err # NoError
           THEN Commit(nodes, bkts, segs, lock, total,
                       [th EXCEPT ![t] = Returned(r, FALSE, made.err, Nil)])
           ELSE /\ ids # << >>
                /\ Commit([nodes EXCEPT ![ids[1]] = made.pair],
                          bkts, segs, lock, total,
                          [th EXCEPT ![t] = [r EXCEPT !.pc = "segPut66",
                                                      !.p = ids[1]]])

\* myConcurrentMap.Get, lines 71-73
cmap_Get(t, key) ==
    /\ th[t].pc = "idle"
    /\ Same(lock, total,
            [th EXCEPT ![t] =
               [Idle EXCEPT !.op = "Get", !.key = key, !.pc = "segGet82",
                            !.ret = "cmapGet74",
                            !.seg = findSegment(hash(key))]])

\* myConcurrentMap.Get, lines 74-78: the element of the pair found, or nil
cmap_Get_return(t) ==
    LET r == th[t]
    IN  /\ r.pc = "cmapGet74"
        /\ Commit(nodes, bkts, segs, lock, total,
                  [th EXCEPT ![t] =
                     Returned(r, r.target # Nil, NoError,
                              IF r.target = Nil THEN Nil
                              ELSE nodes[r.target].element)])

\* myConcurrentMap.Delete, line 82
cmap_Delete(t, key) ==
    /\ th[t].pc = "idle"
    /\ Same(lock, total,
            [th EXCEPT ![t] =
               [Idle EXCEPT !.op = "Delete", !.key = key, !.pc = "segDel89",
                            !.seg = findSegment(hash(key))]])

\* the facade counting whatever the segment returned: a faulty variant
cmap_after_segment_always(t) ==
    LET r == th[t]
    IN  /\ r.pc \in { "segPut74", "segDel97" }
        /\ Commit(nodes, bkts, segs, lock,
                  IF r.op = "Put" THEN total + 1 ELSE total - 1,
                  [th EXCEPT ![t] = Returned(r, r.ok, r.err, Nil)])

\* myConcurrentMap.Put, lines 47-50, and myConcurrentMap.Delete, lines 83-87:
\* the segment's method has returned
cmap_after_segment(t) ==
    LET r == th[t]
    IN  /\ r.pc \in { "segPut74", "segDel97" }
        /\ Commit(nodes, bkts, segs, lock,
                  IF ~r.ok THEN total
                  ELSE IF r.op = "Put" THEN total + 1 ELSE total - 1,
                  [th EXCEPT ![t] = Returned(r, r.ok, r.err, Nil)])

\* myConcurrentMap.Len
cmap_Len(t) ==
    /\ th[t].pc = "idle"
    /\ Same(lock, total,
            [th EXCEPT ![t] =
               Returned([Idle EXCEPT !.op = "Len"], TRUE, NoError, total)])

(* ------------------- the segment that is driven directly --------------- *)

\* The callers below drive one segment as the code of the package may: they
\* hold its lock around a call of the Bucket interface or of redistribute, or
\* call its Get.  What a call returns is read where it returns, at "saUnlock"
\* and "saGot"; the caller keeps nothing of it.

\* Put of a new pair or Delete of a key, under the segment's lock
Standalone_call(t, op, key, element) ==
    LET made == newPair(key, element)
        ids == Smallest(FreeNodeIds, 1)
        r == [Idle EXCEPT !.op = op, !.key = key, !.seg = Standalone,
                          !.pc = "saLock"]
    IN  /\ th[t].pc = "idle"
        /\ IF op = "BucketPut"
           THEN /\ made.err = NoError
                /\ ids # << >>
                /\ Commit([nodes EXCEPT ![ids[1]] = made.pair],
                          bkts, segs, lock, total,
                          [th EXCEPT ![t] = [r EXCEPT !.p = ids[1]]])
           ELSE /\ element = Nil
                /\ Same(lock, total, [th EXCEPT ![t] = r])

\* the call itself, with the lock held, line 67 or 90 of the segment
Standalone_bucket(t) ==
    LET r == th[t]
    IN  /\ r.pc = "saBucket"
        /\ Commit(nodes, bkts, segs, lock, total,
                  [th EXCEPT ![t] =
                     [r EXCEPT !.ret = "saUnlock",
                               !.b = BucketOf(segs[r.seg], r.key),
                               !.pc = CASE r.op = "BucketPut" -> "bPut58"
                                        [] r.op = "BucketDelete" -> "bDel92"
                                        [] OTHER -> "bClr146"]])

\* segment.Get(key) on it
Standalone_Get(t, key) ==
    /\ th[t].pc = "idle"
    /\ Same(lock, total,
            [th EXCEPT ![t] =
               [Idle EXCEPT !.op = "SegmentGet", !.key = key,
                            !.pc = "segGet82", !.ret = "saGot",
                            !.seg = Standalone]])

\* segment.Get has returned
Standalone_Get_return(t) ==
    /\ th[t].pc = "saGot"
    /\ Commit(nodes, bkts, segs, lock, total, [th EXCEPT ![t] = Idle])

\* segment.redistribute(pairTotal, bucketSize) on it while its chain array
\* has the length it was made with: the caller locks first
Standalone_redistribute_call(t, pairTotal, bucketSize) ==
    /\ th[t].pc = "idle"
    /\ segs[Standalone].bucketsLen = DEFAULT_BUCKET_NUMBER
    /\ Same(lock, total,
            [th EXCEPT ![t] =
               [Idle EXCEPT !.op = "redistribute", !.pc = "saLock",
                            !.pairTotal = pairTotal,
                            !.bucketSize = bucketSize,
                            !.seg = Standalone]])

\* segment.redistribute(pairTotal, bucketSize) on it once its chain array has
\* been replaced
Standalone_redistribute_again(t, pairTotal, bucketSize) ==
    /\ th[t].pc = "idle"
    /\ segs[Standalone].bucketsLen # DEFAULT_BUCKET_NUMBER
    /\ Same(lock, total,
            [th EXCEPT ![t] =
               [Idle EXCEPT !.op = "redistribute", !.pc = "saLock",
                            !.pairTotal = pairTotal,
                            !.bucketSize = bucketSize,
                            !.seg = Standalone]])

\* segment.redistribute on it, with the lock held
Standalone_redistribute(t, fault) ==
    LET r == th[t]
    IN  /\ r.pc = "saRedist"
        /\ redistribute_begin(t, [r EXCEPT !.rret = "saUnlock"], segs,
                              r.pairTotal, r.bucketSize, fault)

\* the caller unlocks
Standalone_unlock(t) ==
    LET r == th[t]
    IN  /\ r.pc = "saUnlock"
        /\ Commit(nodes, bkts, segs, [lock EXCEPT ![r.seg] = 0], total,
                  [th EXCEPT ![t] = Idle])

(* --------------------------- specification ---------------------------- *)

\* a call of the facade by an idle thread
MapCall(t) ==
    \/ \E key \in Keys, element \in Elems \cup { Nil } : cmap_Put(t, key, element)
    \/ \E key \in Keys : cmap_Get(t, key)
    \/ \E key \in Keys : cmap_Delete(t, key)
    \/ cmap_Len(t)

\* a step of a call of the facade.  bucket_Put_update, bucket_Put_link,
\* bucket_Put_publish and bucket_Delete_publish are not among them: no call of
\* the facade gets there (MapNeverThere).
MapStep(t) ==
    \/ mutex_Lock(t)
    \/ segment_Put_call(t)
    \/ bucket_Put_scan(t)
    \/ bucket_Put_first(t)
    \/ \E fault \in BOOLEAN : segment_Put_after(t, fault)
    \/ \E fault \in BOOLEAN : Redistribe_step(t, fault)
    \/ redistribute_end(t)
    \/ segment_GetWithHash(t)
    \/ bucket_Get_first(t)
    \/ bucket_Get_step(t)
    \/ cmap_Get_return(t)
    \/ segment_Delete_call(t)
    \/ bucket_Delete_build(t)
    \/ \E fault \in BOOLEAN : segment_Delete_after(t, fault)
    \/ segment_Delete_unlock(t)
    \/ cmap_after_segment(t)

Next == \E t \in Threads : MapCall(t) \/ MapStep(t)

\* the program that calls the facade
Spec == Init /\ [][Next]_vars

\* a goroutine that can run does run
FairSpec == Spec /\ \A t \in Threads : WF_vars(MapStep(t))

\* the thread that puts, clears and redistributes in the driven segment
Writer == CHOOSE t \in Threads : \A u \in Threads : t <= u

\* the elements that are put under a key in the driven segment: more than
\* one under the first key only
ElemsFor(key) == IF key = 1 THEN Elems ELSE { 1 }

\* the arguments of segment.redistribute that are tried
TotalArgs == 0..1
SizeArgs == { 0, BUCKET_MAX_SIZE + 1 }

\* a call on one chain of the driven segment: the writer puts, deletes and
\* clears, the others delete and get
ChainCall(t) ==
    \/ /\ t = Writer
       /\ \E key \in Keys : \E element \in ElemsFor(key) :
             Standalone_call(t, "BucketPut", key, element)
    \/ /\ t = Writer
       /\ Standalone_call(t, "BucketClear", 1, Nil)
    \/ \E key \in Keys : Standalone_call(t, "BucketDelete", key, Nil)
    \/ /\ t # Writer
       /\ \E key \in Keys : Standalone_Get(t, key)

ChainStep(t) ==
    \/ mutex_Lock(t)
    \/ Standalone_bucket(t)
    \/ bucket_Put_scan(t)
    \/ bucket_Put_first(t)
    \/ bucket_Put_update(t)
    \/ bucket_Put_link(t)
    \/ bucket_Put_publish(t)
    \/ bucket_Delete_build(t)
    \/ bucket_Delete_publish(t)
    \/ bucket_Clear(t)
    \/ Standalone_unlock(t)
    \/ segment_GetWithHash(t)
    \/ bucket_Get_first(t)
    \/ bucket_Get_step(t)
    \/ Standalone_Get_return(t)

ChainNext == \E t \in Threads : ChainCall(t) \/ ChainStep(t)

\* the program that drives one chain
ChainSpec == Init /\ [][ChainNext]_vars

\* a call on the driven segment while it is resized: the writer puts and
\* redistributes, the others get
RehashCall(t) ==
    \/ /\ t = Writer
       /\ \E key \in Keys : \E element \in ElemsFor(key) :
             Standalone_call(t, "BucketPut", key, element)
    \/ /\ t = Writer
       /\ \E pairTotal \in TotalArgs, bucketSize \in SizeArgs :
             Standalone_redistribute_call(t, pairTotal, bucketSize)
    \/ /\ t # Writer
       /\ \E key \in Keys : Standalone_Get(t, key)

RehashStep(t) ==
    \/ mutex_Lock(t)
    \/ Standalone_bucket(t)
    \/ bucket_Put_scan(t)
    \/ bucket_Put_first(t)
    \/ bucket_Put_update(t)
    \/ bucket_Put_link(t)
    \/ bucket_Put_publish(t)
    \/ \E fault \in BOOLEAN : Standalone_redistribute(t, fault)
    \/ \E fault \in BOOLEAN : Redistribe_step(t, fault)
    \/ redistribute_end(t)
    \/ Standalone_unlock(t)
    \/ segment_GetWithHash(t)
    \/ bucket_Get_first(t)
    \/ bucket_Get_step(t)
    \/ Standalone_Get_return(t)

RehashNext == \E t \in Threads : RehashCall(t) \/ RehashStep(t)

\* the program that drives one segment through the resizing of its array
RehashSpec == Init /\ [][RehashNext]_vars

\* the chain array newSegment(2 * DEFAULT_BUCKET_NUMBER, nil) makes for the
\* driven segment
WideBuckets ==
    [i \in 1..(2 * DEFAULT_BUCKET_NUMBER) |->
        Standalone * DEFAULT_BUCKET_NUMBER + i]

\* NewConcurrentMap(Concurrency, nil), and beside it a segment made with twice
\* the default number of chains
ResizeInit ==
    /\ nodes = [n \in NodeIds |-> FreeNode]
    /\ segs = [s \in SegIds |->
                 IF s = Standalone
                 THEN [buckets |-> WideBuckets,
                       bucketsLen |-> 2 * DEFAULT_BUCKET_NUMBER,
                       pairTotal |-> 0]
                 ELSE newSegment(s)]
    /\ bkts = [b \in BucketIds |->
                 IF b \in Range(WideBuckets)
                       \cup UNION { Range(newSegmentBuckets(s)) : s \in SegIds }
                 THEN newBucket ELSE FreeBucket]
    /\ lock = [s \in SegIds |-> 0]
    /\ total = 0
    /\ th = [t \in Threads |-> Idle]

\* a call on that segment: the writer puts, and redistributes while the
\* array has not its default length; the others get
ResizeCall(t) ==
    \/ /\ t = Writer
       /\ \E key \in Keys : \E element \in ElemsFor(key) :
             Standalone_call(t, "BucketPut", key, element)
    \/ /\ t = Writer
       /\ \E pairTotal \in TotalArgs, bucketSize \in SizeArgs :
             Standalone_redistribute_again(t, pairTotal, bucketSize)
    \/ /\ t # Writer
       /\ \E key \in Keys : Standalone_Get(t, key)

\* a step of such a call, with a redistributor that does not panic
ResizeStep(t) ==
    \/ mutex_Lock(t)
    \/ Standalone_bucket(t)
    \/ bucket_Put_scan(t)
    \/ bucket_Put_first(t)
    \/ bucket_Put_update(t)
    \/ bucket_Put_link(t)
    \/ bucket_Put_publish(t)
    \/ Standalone_redistribute(t, FALSE)
    \/ Redistribe_step(t, FALSE)
    \/ redistribute_end(t)
    \/ Standalone_unlock(t)
    \/ segment_GetWithHash(t)
    \/ bucket_Get_first(t)
    \/ bucket_Get_step(t)
    \/ Standalone_Get_return(t)

ResizeNext == \E t \in Threads : ResizeCall(t) \/ ResizeStep(t)

\* the program that drives one segment through the shrinking of its array
ResizeSpec == ResizeInit /\ [][ResizeNext]_vars

(* ------------------------------ views --------------------------------- *)

\* the keys and elements of a sequence of pairs, in order
KV(nd, seq) == [i \in 1..Len(seq) |-> << nd[seq[i]].key, nd[seq[i]].element >>]

\* what is reachable from the head of bucket b
ChainKV(nd, bk, b) == KV(nd, Chain(nd, bk[b]))

\* what is reachable from the chains of an array, chain after chain
ArrayKV(nd, bk, buckets) == KV(nd, AllPairs(nd, bk, buckets))

\* the keys of a sequence of keys and elements
KeysOf(kv) == { kv[i][1] : i \in 1..Len(kv) }

\* the sequence without the pairs of a key
Without(kv, key) == SelectSeq(kv, LAMBDA x : x[1] # key)

\* the element Get would find under the key in the sequence, or Nil
Lookup(kv, key) ==
    LET hits == { i \in 1..Len(kv) : kv[i][1] = key }
    IN  IF hits = {} THEN Nil
        ELSE kv[CHOOSE i \in hits : \A j \in hits : i <= j][2]

\* the element the map holds under a key, or Nil
Stored(key) ==
    Lookup(ChainKV(nodes, bkts,
                   BucketOf(segs[findSegment(hash(key))], key)), key)

\* the number of keys the map holds
MapCount == Cardinality({ k \in Keys : Stored(k) # Nil })

\* a segment: its fields, and its chains with their heads and sizes
ShardView(nd, bk, sg) ==
    << sg.pairTotal, sg.bucketsLen, sg.buckets,
       [i \in 1..Len(sg.buckets) |->
          << bk[sg.buckets[i]].size, bk[sg.buckets[i]].firstValue,
             ChainKV(nd, bk, sg.buckets[i]) >>] >>

\* No call of the facade gets to lines 72-81 of bucket.Put or lines 111-124 of
\* bucket.Delete: a segment whose chain holds a pair is locked for good.
MapNeverThere ==
    \A t \in Threads : th[t].pc \notin { "bPut73", "bPut77", "bPut78", "bDel117" }

\* the calls that look a key up, and where such a call can be
GetOps == { "Get", "SegmentGet" }
GetPcs == { "segGet82", "segGet83", "bGet128", "bGet133", "cmapGet74", "saGot" }

\* the element the Get of thread record r returns if no other thread moves,
\* Nil if it finds no pair
GetOutcome(nd, bk, sg, r) ==
    CASE r.pc \in { "segGet82", "segGet83" } ->
            Lookup(ChainKV(nd, bk, BucketOf(sg[r.seg], r.key)), r.key)
      [] r.pc = "bGet128" -> Lookup(ChainKV(nd, bk, r.b), r.key)
      [] r.pc = "bGet133" ->
            Lookup(KV(nd, WalkFrom(nd, r.v, MaxNodes + 1)), r.key)
      [] OTHER -> IF r.target = Nil THEN Nil ELSE nd[r.target].element

\* the step is one of thread t: its position changes, or nobody's does and
\* t has gone on to the next pair (a turn of the loop of bucket.Get)
StepOf(t) ==
    \/ th'[t].pc # th[t].pc
    \/ /\ \A u \in Threads : th'[u].pc = th[u].pc
       /\ th[t].pc = "bGet133"
       /\ KV(nodes', WalkFrom(nodes', th'[t].v, MaxNodes + 1))
             # KV(nodes, WalkFrom(nodes, th[t].v, MaxNodes + 1))

(* --------------------- properties of the facade ------------------------ *)

\* C1: a Get(k) that starts while the map holds v under k returns v, unless a
\* later Put(k, *) or Delete(k) changes what the map holds under k first.
C1_GetReturnsStored ==
    \A t \in Threads, k \in Keys, v \in Elems :
        (th[t].op = "Get" /\ th[t].key = k /\ th[t].pc = "segGet82"
            /\ Stored(k) = v)
        ~> \/ (th[t].op = "Get" /\ th[t].key = k /\ th[t].pc = "idle"
                  /\ th[t].val = v)
           \/ Stored(k) # v

\* C2: every call of segment.Put returns, and when it has returned the caller
\* does not hold the segment's lock.
C2_PutReturnsUnlocked ==
    \A t \in Threads :
        (th[t].op = "Put" /\ th[t].pc = "segPut66")
        ~> (th[t].pc = "segPut74" /\ lock[th[t].seg] # t)

\* C3: when the map holds n keys, put and never deleted, Len() comes to be n
\* once the Puts have completed.
C3_LenCountsPuts ==
    \A n \in 1..NumKeys :
        (MapCount = n) ~> (total = n \/ MapCount # n)

\* C4: a Put(k, v2) called while k is in the map returns (false, nil) with v2
\* stored under k, unless k is deleted first.
C4_PutOnPresentKey ==
    \A t \in Threads, k \in Keys :
        (th[t].op = "Put" /\ th[t].key = k /\ th[t].pc = "segPut66"
            /\ Stored(k) # Nil)
        ~> \/ (th[t].op = "Put" /\ th[t].key = k /\ th[t].pc = "segPut74"
                  /\ ~th[t].ok /\ th[t].err = NoError
                  /\ Stored(k) = th[t].elem)
           \/ Stored(k) = Nil

\* C5: a Delete(k) called while k is in the map takes k out of the map and
\* returns true.
C5_DeleteOfPresentKey ==
    \A t \in Threads, k \in Keys :
        (th[t].op = "Delete" /\ th[t].key = k /\ th[t].pc = "segDel89"
            /\ Stored(k) # Nil)
        ~> (Stored(k) = Nil)

\* C6: a Put(k, nil) is over in the step that calls it: it returns false and
\* an IllegalParameterError, and that step changes no pair, chain, segment,
\* lock or total.
C6_PutNilFails ==
    [][\A t \in Threads :
          (th'[t].op = "Put" /\ th'[t].elem = Nil)
          => /\ th'[t].pc = "idle"
             /\ ~th'[t].ok
             /\ th'[t].err = IllegalParameterError
             /\ (th'[t] # th[t]
                   => UNCHANGED << nodes, bkts, segs, lock, total >>)]_vars

\* a Put(k, nil) has returned while the map holds a pair
C6_Witness ==
    \E t \in Threads :
        /\ th[t].op = "Put" /\ th[t].elem = Nil /\ th[t].pc = "idle"
        /\ th[t].err = IllegalParameterError
        /\ MapCount > 0

\* the steps of a Delete whose key bucket.Delete does not find
DeleteAbsentPcs == { "bDel92", "segDel92", "segDel96", "segDel97" }

\* C7: from the moment bucket.Delete misses the key, every step of the Delete
\* leaves the total, the segment's pair total, its chain array and each
\* chain's head and size as they are; the Delete unlocks the segment at line
\* 96 and returns false.
C7_DeleteAbsentChangesNothing ==
    [][\A t \in Threads :
          LET r == th[t]
              absent == IF r.pc = "bDel92"
                        THEN r.key \notin KeysOf(ChainKV(nodes, bkts, r.b))
                        ELSE ~r.ok
          IN  (r.op = "Delete" /\ r.pc \in DeleteAbsentPcs
                  /\ th'[t].pc # r.pc /\ absent)
              => /\ ~th'[t].ok
                 /\ th'[t].pc = CASE r.pc = "bDel92" -> "segDel92"
                                  [] r.pc = "segDel92" -> "segDel96"
                                  [] r.pc = "segDel96" -> "segDel97"
                                  [] OTHER -> "idle"
                 /\ (r.pc = "segDel96" => lock[r.seg] = t /\ lock'[r.seg] = 0)
                 /\ (r.pc = "segDel97"
                       => th'[t].op = "Delete" /\ th'[t].err = NoError)
                 /\ total' = total
                 /\ ShardView(nodes', bkts', segs'[r.seg])
                       = ShardView(nodes, bkts, segs[r.seg])]_vars

\* a Delete has returned false while the map holds a pair
C7_Witness ==
    \E t \in Threads :
        /\ th[t].op = "Delete" /\ th[t].pc = "idle" /\ ~th[t].ok
        /\ MapCount > 0

\* C10: the step in which segment.redistribute, called by segment.Put or
\* segment.Delete, recovers from a panic returns the PairRedistributorError and
\* leaves s.buckets and s.bucketsLen as they are, which is as they were when
\* Redistribe was given the array.
C10_FaultLeavesArray ==
    [][\A t \in Threads :
          LET r == th[t]
          IN  (r.pc \in { "segPut69", "segDel92", "rehash" }
                  /\ r.op \in { "Put", "Delete" }
                  /\ th'[t].pc # r.pc
                  /\ th'[t].rerr = PairRedistributorError)
              => /\ th'[t].pc \in { "segPut73", "segDel96" }
                 /\ segs'[r.seg].buckets = segs[r.seg].buckets
                 /\ segs'[r.seg].bucketsLen = segs[r.seg].bucketsLen
                 /\ (r.pc = "rehash"
                       => /\ segs[r.seg].buckets = r.buckets
                          /\ segs[r.seg].bucketsLen = Len(r.buckets))]_vars

\* segment.Put has got the error of a redistribution that panicked
C10_Witness ==
    \E t \in Threads :
        /\ th[t].op = "Put" /\ th[t].pc = "segPut73"
        /\ th[t].rerr = PairRedistributorError
        /\ segs[th[t].seg].pairTotal = 1
        /\ segs[th[t].seg].bucketsLen = DEFAULT_BUCKET_NUMBER

(* ------------------ properties of the driven segment ------------------- *)

\* the chain array of the driven segment, and its chain of a key
DrivenKV == ArrayKV(nodes, bkts, segs[Standalone].buckets)
DrivenChainKV(key) ==
    ChainKV(nodes, bkts, BucketOf(segs[Standalone], key))

\* C8: the step that stores the array Redistribe has filled (lines 57-62)
\* leaves the keys and elements that are reachable from the segment's chains
\* as they are, each key reachable once, from the chain Get looks in and with
\* the element it had.
C8_RehashIsLossless ==
    [][\A t \in Threads :
          (th[t].pc = "redist57" /\ th'[t].pc # "redist57")
          => LET old == DrivenKV
                 new == ArrayKV(nodes', bkts', segs'[Standalone].buckets)
             IN  /\ { new[i] : i \in 1..Len(new) }
                      = { old[i] : i \in 1..Len(old) }
                 /\ Len(new) = Cardinality(KeysOf(new))
                 /\ \A k \in KeysOf(old) :
                       Lookup(ChainKV(nodes', bkts',
                                      BucketOf(segs'[Standalone], k)), k)
                         = Lookup(old, k)]_vars

C11_FailureSurfaces ==
    \A t \in Threads :
        (th[t].op \in { "Put", "Delete" }
            /\ th[t].pc \in { "segPut73", "segPut74", "segDel96", "segDel97" }
            /\ th[t].rerr = PairRedistributorError)
        => th[t].err = PairRedistributorError

(* --------------------------- lookups ----------------------------------- *)

\* C12: a step of a Get changes no chain, counter or chain array; it takes
\* the segment's lock at line 82, gives it back at line 84 and does not hold
\* it from then on; and it leaves what every Get under way returns, its own
\* included, as it was.  So Gets of a key with no step of a Put, Delete or
\* resize between or during them return the same.
C12_GetChangesNothing ==
    [][\A t \in Threads :
          LET r == th[t]
          IN  (r.op \in GetOps /\ r.pc \in GetPcs /\ StepOf(t))
              => /\ total' = total
                 /\ \A s \in SegIds :
                       ShardView(nodes', bkts', segs'[s])
                         = ShardView(nodes, bkts, segs[s])
                 /\ \A s \in SegIds \ { r.seg } : lock'[s] = lock[s]
                 /\ lock'[r.seg] = CASE r.pc = "segGet82" -> t
                                     [] r.pc = "segGet83" -> 0
                                     [] OTHER -> lock[r.seg]
                 /\ (r.pc # "segGet82" => lock'[r.seg] # t)
                 /\ \A u \in Threads :
                       (th[u].op \in GetOps /\ th[u].pc \in GetPcs
                           /\ th'[u].pc \in GetPcs)
                       => GetOutcome(nodes', bkts', segs', th'[u])
                            = GetOutcome(nodes, bkts, segs, th[u])
                 /\ (th'[t].pc = "idle" /\ r.op = "Get"
                       => th'[t].val = GetOutcome(nodes, bkts, segs, r))]_vars

\* a Get has found its key behind the head of a chain and has left the
\* segment unlocked
C12_Witness ==
    \E u \in Threads :
        /\ th[u].op = "SegmentGet" /\ th[u].pc = "saGot"
        /\ th[u].target # Nil
        /\ th[u].target # GetFirstPair(bkts[BucketOf(segs[Standalone], th[u].key)])
        /\ th[u].target \in Range(Chain(nodes, bkts[BucketOf(segs[Standalone], th[u].key)]))
        /\ lock[Standalone] = 0

(* ---------------------- readers beside a writer ------------------------ *)

\* C13: while bucket.Put inserts a new pair (lines 59-62 and 76-81) the head
\* it loaded stays the head until the pair is published, the pair's next is
\* that head before it is published, and each step leaves the chain as it was
\* or, at the publication, puts the new pair in front of it; a Get that loads
\* the head (line 128) walks the chain as it is at that step, so it walks the
\* prior chain or the prior chain behind the new pair.
C13_PutLinksBeforePublish ==
    [][/\ \A t \in Threads :
             LET r == th[t]
                 prior == ChainKV(nodes, bkts, r.b)
                 after == ChainKV(nodes', bkts', BucketOf(segs'[r.seg], r.key))
                 new == << << nodes[r.p].key, nodes[r.p].element >> >>
             IN  (r.op = "BucketPut" /\ r.pc \in { "bPut60", "bPut77", "bPut78" })
                 => /\ GetFirstPair(bkts[r.b]) = r.firstPair
                    /\ nodes[r.p].key \notin KeysOf(prior)
                    /\ (r.pc = "bPut78" => nodes[r.p].next = r.firstPair)
                    /\ \/ after = prior
                       \/ /\ after = new \o prior
                          /\ r.pc \in { "bPut60", "bPut78" }
                          /\ th'[t].pc = "saUnlock"
       /\ \A u \in Threads :
             (th[u].op \in GetOps /\ th[u].pc = "bGet128"
                 /\ th'[u].pc = "bGet133")
             => KV(nodes', WalkFrom(nodes', th'[u].v, MaxNodes + 1))
                  = ChainKV(nodes, bkts, th[u].b)]_vars

\* a Get has loaded the head of a chain of two pairs while a Put to that chain
\* has linked its new pair and not yet published it
C13_Witness ==
    \E t \in Threads, u \in Threads :
        /\ th[t].op = "BucketPut" /\ th[t].pc = "bPut78"
        /\ th[u].op = "SegmentGet" /\ th[u].pc = "bGet133"
        /\ th[u].b = th[t].b
        /\ th[u].v = th[t].firstPair
        /\ Len(ChainKV(nodes, bkts, th[t].b)) = 2

\* C14: no step of bucket.Delete changes the keys, elements or links a Get in
\* mid-traversal has before it; building the copies (lines 97-116) leaves the
\* chain as it is; and once the new head is published (lines 117-121) the
\* chain holds every pair but that of the deleted key, so a Get that loads
\* the head from then on does not find that key there.
C14_DeleteCopiesOnWrite ==
    [][\A t \in Threads :
          LET r == th[t]
              old == ChainKV(nodes, bkts, r.b)
              new == ChainKV(nodes', bkts', BucketOf(segs'[r.seg], r.key))
          IN  (r.op = "BucketDelete" /\ r.pc \in { "bDel92", "bDel117" }
                  /\ th'[t].pc # r.pc)
              => /\ \A u \in Threads :
                       (th[u].op \in GetOps /\ th[u].pc = "bGet133")
                       => KV(nodes', WalkFrom(nodes', th'[u].v, MaxNodes + 1))
                            = KV(nodes, WalkFrom(nodes, th[u].v, MaxNodes + 1))
                 /\ (r.pc = "bDel92" => new = old)
                 /\ (r.pc = "bDel117"
                       => /\ new = Without(old, r.key)
                          /\ r.key \notin KeysOf(new)
                          /\ Lookup(new, r.key) = Nil)]_vars

\* a Delete has published its chain while a Get is on a pair before the
\* deleted one in the old chain: the Get's pair is no longer in the chain and
\* the deleted key is still ahead of the Get
C14_Witness ==
    \E t \in Threads, u \in Threads :
        /\ th[t].op = "BucketDelete" /\ th[t].pc = "saUnlock" /\ th[t].ok
        /\ th[u].op = "SegmentGet" /\ th[u].pc = "bGet133"
        /\ th[u].v \notin Range(Chain(nodes, bkts[th[t].b]))
        /\ nodes[th[u].v].key # th[t].key
        /\ th[t].key \in KeysOf(KV(nodes, WalkFrom(nodes, th[u].v, MaxNodes + 1)))
        /\ th[t].key \notin KeysOf(ChainKV(nodes, bkts, th[t].b))

\* C15: a step of a resize (segment.redistribute and the rehash it runs)
\* leaves what a Get that has taken its chain (line 83) returns as it is when
\* that is an element: the Get of a key that is there returns its element,
\* whether it took the old array or the new one, and the pairs before it are
\* not linked anew.
C15_GetDuringResize ==
    [][\A t \in Threads, u \in Threads :
          (th[t].op = "redistribute" /\ th[t].pc # "saLock"
              /\ th'[t].pc # th[t].pc
              /\ th[u].op \in GetOps /\ th[u].pc \in { "bGet128", "bGet133" }
              /\ GetOutcome(nodes, bkts, segs, th[u]) # Nil)
          => GetOutcome(nodes', bkts', segs', th'[u])
               = GetOutcome(nodes, bkts, segs, th[u])]_vars

(* ------------------------- the segments' locks ------------------------- *)

\* where a segment.Put or segment.Delete is between its Lock and its return
\* or Unlock: the chain insert, the chain delete and the resize happen here
MutationPcs ==
    { "segPut67", "bPut58", "bPut60", "bPut73", "bPut77", "bPut78", "segPut69",
      "segPut73", "segDel90", "bDel92", "bDel117", "segDel92", "segDel96",
      "rehash", "redist57" }

\* the threads that are changing segment s
Mutators(s) ==
    { t \in Threads : /\ th[t].op \in { "Put", "Delete" }
                      /\ th[t].seg = s
                      /\ th[t].pc \in MutationPcs }

\* C16: in each segment at most one thread is inside a Put or Delete (chain
\* insert, chain delete, resize) and it holds that segment's lock; and a Put
\* or Delete that is at its Lock can take the lock whenever the lock of its
\* own segment is free, whatever locks of other segments are held.
C16_OneMutatorPerSegment ==
    /\ \A s \in SegIds :
          /\ Cardinality(Mutators(s)) <= 1
          /\ \A t \in Mutators(s) : lock[s] = t
    /\ \A t \in Threads :
          (th[t].pc \in { "segPut66", "segDel89" } /\ lock[th[t].seg] = 0)
          => ENABLED mutex_Lock(t)

\* a Put is inside one segment while another thread has just locked another
\* segment for its Put
C16_Witness ==
    \E t \in Threads, u \in Threads :
        /\ th[t].seg # th[u].seg
        /\ t \in Mutators(th[t].seg) /\ lock[th[t].seg] = t
        /\ th[u].op = "Put" /\ th[u].pc = "segPut67" /\ lock[th[u].seg] = u

(* --------------------------- chain invariants -------------------------- *)

\* C17: while nothing changes the driven segment (its lock is free), every
\* pair reachable from the head of chain i of its array has a key whose hash
\* modulo the length of the array is i.
C17_PairsAreInTheirChain ==
    lock[Standalone] = 0
    => \A i \in 1..Len(segs[Standalone].buckets) :
          \A k \in KeysOf(ChainKV(nodes, bkts, segs[Standalone].buckets[i])) :
             HashMod(hash(k), segs[Standalone].bucketsLen) = i - 1

\* C18: when no Put, Delete or Clear of a chain of the driven segment is under
\* way (the lock they are serialized by is free), the chain's size is the
\* number of pairs reachable from its head and no two of those pairs have
\* the same key.
C18_SizeCountsDistinctKeys ==
    lock[Standalone] = 0
    => \A i \in 1..Len(segs[Standalone].buckets) :
          LET b == segs[Standalone].buckets[i]
              kv == ChainKV(nodes, bkts, b)
          IN  /\ bkts[b].size = Len(kv)
              /\ Cardinality(KeysOf(kv)) = Len(kv)

\* every call has returned and the chain holds three pairs, the first key
\* not at its head
C18_Witness ==
    /\ \A t \in Threads : th[t].pc = "idle"
    /\ lock[Standalone] = 0
    /\ Len(DrivenChainKV(1)) = 3
    /\ Lookup(DrivenChainKV(1), 1) = 2
    /\ DrivenChainKV(1)[1][1] # 1

(* ------------------------------ counting ------------------------------- *)

\* the Puts that have been called and have not returned
PutsInProgress == { t \in Threads : th[t].op = "Put" /\ th[t].pc # "idle" }

HashSamples ==
    { hash(k) : k \in Keys }
    \cup { << a, b, c, d >> : a \in { 0, 1, 2, Limb - 1 }, b \in { 0, Limb - 1 },
                               c \in { 0, 1, 2, Limb - 1 }, d \in { 0, Limb - 1 } }

\* C20: in a map of concurrency c >= 2 findSegment gives every hash an index
\* in 0..c-2, in a map of concurrency 1 the index 0; a Put, Get or Delete is
\* in the segment findSegment gives its key, which is not the last one; and
\* the last segment stays as NewConcurrentMap made it, empty and unlocked.
C20_LastSegmentUnused ==
    /\ \A h \in HashSamples :
          /\ findSegmentOf(1, h) = 0
          /\ \A c \in 2..(Concurrency + 1) : findSegmentOf(c, h) \in 0..(c - 2)
          /\ findSegment(h) \in 0..(Concurrency - 2)
    /\ \A t \in Threads :
          (th[t].op \in { "Put", "Get", "Delete" } /\ th[t].pc # "idle")
          => /\ th[t].seg = findSegment(hash(th[t].key))
             /\ th[t].seg # Concurrency - 1
    /\ segs[Concurrency - 1].pairTotal = 0
    /\ segs[Concurrency - 1].bucketsLen = DEFAULT_BUCKET_NUMBER
    /\ Len(segs[Concurrency - 1].buckets) = DEFAULT_BUCKET_NUMBER
    /\ \A i \in 1..Len(segs[Concurrency - 1].buckets) :
          bkts[segs[Concurrency - 1].buckets[i]] = newBucket
    /\ lock[Concurrency - 1] = 0

\* two segments of the map, neither the last, each hold a key that a Put
\* has stored
C20_Witness ==
    \E k \in Keys, l \in Keys : \E t \in Threads, u \in Threads :
        /\ findSegment(hash(k)) # findSegment(hash(l))
        /\ Stored(k) # Nil /\ Stored(l) # Nil
        /\ th[t].op = "Put" /\ th[t].key = k /\ th[t].pc = "segPut73"
        /\ th[u].op = "Put" /\ th[u].key = l /\ th[u].pc = "segPut73"

=============================================================================
